---- MODULE Spec2Model ----
(***************************************************************************)
(* Model of nginx-request-exporter: the syslog worker of                   *)
(* processMetricsFromSyslog, the line parser it calls and the Prometheus   *)
(* registry it registers histogram collectors with.                        *)
(*                                                                         *)
(* Text is modelled as sequences of one-character strings, so splitting,   *)
(* trimming and number parsing are computed, not assumed.  Metric values   *)
(* are fixed-point numbers in tenths ("0.5" is 5, "1" is 10).             *)
(***************************************************************************)
EXTENDS Integers, Sequences, FiniteSets, TLC

\* ------------------------------------------------------------------ bounds
\* Number of syslog messages the ingress adapter delivers in one run.
MaxMsgs == 2

\* Number of scrapes the metrics handler serves in one run.
MaxScrapes == 2

\* ------------------------------------------------------------ text helpers
Digits == {"0", "1", "2", "3", "4", "5", "6", "7", "8", "9"}

DigitVal(c) ==
  CASE c = "0" -> 0 [] c = "1" -> 1 [] c = "2" -> 2 [] c = "3" -> 3
    [] c = "4" -> 4 [] c = "5" -> 5 [] c = "6" -> 6 [] c = "7" -> 7
    [] c = "8" -> 8 [] c = "9" -> 9

\* Index of the first occurrence of character c in s, 0 when absent.
RECURSIVE IndexFrom(_, _, _)
IndexFrom(s, c, k) ==
  IF k > Len(s) THEN 0
  ELSE IF s[k] = c THEN k
  ELSE IndexFrom(s, c, k + 1)

Index(s, c) == IndexFrom(s, c, 1)

Contains(s, c) == Index(s, c) # 0

\* strings.Split(s, sep): the pieces between separators, empty ones kept.
RECURSIVE Split(_, _)
Split(s, sep) ==
  LET k == Index(s, sep)
  IN IF k = 0 THEN <<s>>
     ELSE CHOOSE pieces \in
            { <<SubSeq(s, 1, k - 1)>> \o Split(rest, sep) :
                rest \in {SubSeq(s, k + 1, Len(s))} } : TRUE

\* strings.Fields(s): the pieces between runs of blanks, empty ones dropped.
Fields(s) == SelectSeq(Split(s, " "), LAMBDA f : f # <<>>)

\* strings.TrimSpace(s)
RECURSIVE TrimSpace(_)
TrimSpace(s) ==
  IF s = <<>> THEN s
  ELSE IF Head(s) = " " THEN TrimSpace(Tail(s))
  ELSE IF s[Len(s)] = " " THEN TrimSpace(SubSeq(s, 1, Len(s) - 1))
  ELSE s

AllDigits(s) == \A k \in 1..Len(s) : s[k] \in Digits

\* Value of a digit string read as a decimal integer.
RECURSIVE DecVal(_)
DecVal(s) ==
  IF s = <<>> THEN 0
  ELSE 10 * DecVal(SubSeq(s, 1, Len(s) - 1)) + DigitVal(s[Len(s)])

\* strconv.ParseFloat(s, 64) on plain decimal notation: digits with an
\* optional point, at least one digit, at most one fractional digit kept
\* exactly by the fixed-point representation.  Anything else is a syntax
\* error.
ParseFloat(s) ==
  LET dot  == Index(s, ".")
      ip   == IF dot = 0 THEN s ELSE SubSeq(s, 1, dot - 1)
      fp   == IF dot = 0 THEN <<>> ELSE SubSeq(s, dot + 1, Len(s))
      good == /\ AllDigits(ip) /\ AllDigits(fp)
              /\ Len(ip) + Len(fp) > 0
              /\ Len(fp) <= 1
  IN IF good
       THEN [ok |-> TRUE, val |-> 10 * DecVal(ip) + DecVal(fp)]
       ELSE [ok |-> FALSE, val |-> 0]

\* -------------------------------------------------------------- line parser
\* parseMessage is called at nginx_request_exporter.go:82; its result is a
\* list of metrics (Name, Value), a label set (Names, Values) and an error.

NoError == "none"

Hostname == <<"h", "o", "s", "t", "n", "a", "m", "e">>

\* A quoted label value loses exactly one leading and one trailing quote.
StripQuotes(v) ==
  IF Len(v) >= 2 /\ v[1] = "\"" /\ v[Len(v)] = "\""
    THEN SubSeq(v, 2, Len(v) - 1)
    ELSE v

\* One token: key:value is a metric, key=value is a label, a token with
\* neither or with both delimiters is malformed.
ParseToken(tok) ==
  LET hasColon == Contains(tok, ":")
      hasEq    == Contains(tok, "=")
      d        == IF hasColon THEN Index(tok, ":") ELSE Index(tok, "=")
      key      == SubSeq(tok, 1, d - 1)
      raw      == SubSeq(tok, d + 1, Len(tok))
      pf       == ParseFloat(raw)
  IN IF hasColon = hasEq
       THEN [kind |-> "error", err |-> "MalformedToken"]
     ELSE IF hasColon
       THEN IF pf.ok
              THEN [kind |-> "metric", Name |-> key, Value |-> pf.val]
              ELSE [kind |-> "error", err |-> "InvalidMetricValue"]
     ELSE [kind |-> "label", Name |-> key, Value |-> StripQuotes(raw)]

EmptyParse == [metrics |-> <<>>, Names |-> <<>>, Values |-> <<>>]

ParseFailure(e) == [err |-> e, metrics |-> <<>>, Names |-> <<>>, Values |-> <<>>]

\* Variant: metrics are collected in reverse order.
RECURSIVE ParseTokensPrepend(_, _)
ParseTokensPrepend(toks, acc) ==
  IF toks = <<>> THEN [err |-> NoError] @@ acc
  ELSE LET Rest(t) ==
             CASE t.kind = "error" -> ParseFailure(t.err)
               [] t.kind = "metric" ->
                    ParseTokensPrepend(Tail(toks),
                      [acc EXCEPT !.metrics =
                         <<[Name |-> t.Name, Value |-> t.Value]>> \o @])
               [] t.kind = "label" ->
                    ParseTokensPrepend(Tail(toks),
                      [acc EXCEPT !.Names = Append(@, t.Name),
                                  !.Values = Append(@, t.Value)])
       IN CHOOSE r \in {Rest(t) : t \in {ParseToken(Head(toks))}} : TRUE

\* Tokens are taken in order; the first bad token fails the whole line.
RECURSIVE ParseTokens(_, _)
ParseTokens(toks, acc) ==
  IF toks = <<>> THEN [err |-> NoError] @@ acc
  ELSE LET Rest(t) ==
             CASE t.kind = "error" -> ParseFailure(t.err)
               [] t.kind = "metric" ->
                    ParseTokens(Tail(toks),
                      [acc EXCEPT !.metrics =
                         Append(@, [Name |-> t.Name, Value |-> t.Value])])
               [] t.kind = "label" ->
                    ParseTokens(Tail(toks),
                      [acc EXCEPT !.Names = Append(@, t.Name),
                                  !.Values = Append(@, t.Value)])
       IN CHOOSE r \in {Rest(t) : t \in {ParseToken(Head(toks))}} : TRUE

HasHostname(names, values) ==
  \E k \in 1..Len(names) : names[k] = Hostname /\ values[k] # <<>>

\* The line is cut into tokens, the tokens are parsed, and a result
\* without a non-empty hostname label is turned into a failure.
parseMessage(content) ==
  LET Checked(r) ==
        IF r.err # NoError THEN r
        ELSE IF ~HasHostname(r.Names, r.Values)
          THEN ParseFailure("MissingHostname")
        ELSE r
  IN CHOOSE res \in
       { Checked(r) : r \in {ParseTokens(Fields(content), EmptyParse)} } : TRUE

\* ----------------------------------------------------------- configuration
namespace == "nginx_request"

\* Capacity of the channel between the syslog handler and the worker.
ChannelCapacity == 20000

\* Value of the histogram.buckets parameter in the modelled runs: ".5, 1".
MetricBuckets == <<".", "5", ",", " ", "1">>

\* parseMetricBuckets: split on commas, trim, ParseFloat each piece; a piece
\* that does not parse is fatal (ok = FALSE).
parseMetricBuckets(metricBuckets) ==
  LET strs == Split(metricBuckets, ",")
      fl   == [k \in 1..Len(strs) |-> ParseFloat(TrimSpace(strs[k]))]
  IN [ok      |-> \A k \in 1..Len(strs) : fl[k].ok,
      buckets |-> [k \in 1..Len(strs) |-> fl[k].val]]

\* ------------------------------------------------------ syslog messages
Sp == <<" ">>
HostS == Hostname \o <<"=", "s">>
LabelA == <<"a", "=", "x">>

\* "t:1 hostname=s"
LinePlain == <<"t", ":", "1">> \o Sp \o HostS
\* "t:2 a=x hostname=s"
LineTwoLabels == <<"t", ":", "2">> \o Sp \o LabelA \o Sp \o HostS
\* "t:0.5 hostname=s a=x": the labels of LineTwoLabels in another order
LineReordered == <<"t", ":", "0", ".", "5">> \o Sp \o HostS \o Sp \o LabelA
\* "u:1 t:2 u:3 a=x hostname=s": three metric tokens, u twice
LineMulti ==
  <<"u", ":", "1">> \o Sp \o <<"t", ":", "2">> \o Sp \o <<"u", ":", "3">>
    \o Sp \o LabelA \o Sp \o HostS
\* "t:1 a=x": no hostname label
LineNoHostname == <<"t", ":", "1">> \o Sp \o LabelA
\* "t:1 hostname=": hostname label with an empty value
LineEmptyHostname == <<"t", ":", "1">> \o Sp \o Hostname \o <<"=">>
\* "t:1 u:z hostname=s": a metric value that is not a number
LineBadValue == <<"t", ":", "1">> \o Sp \o <<"u", ":", "z">> \o Sp \o HostS
\* "t:1 junk hostname=s": a token without delimiter
LineJunk == <<"t", ":", "1">> \o Sp \o <<"j", "u", "n", "k">> \o Sp \o HostS
\* "t:1 a=b:1 hostname=s": a token with both delimiters
LineBothDelims ==
  <<"t", ":", "1">> \o Sp \o <<"a", "=", "b", ":", "1">> \o Sp \o HostS
\* "hostname=s": labels only
LineNoMetrics == HostS
\* "t:1  hostname="s"": a quoted value and a run of blanks
LineQuoted ==
  <<"t", ":", "1">> \o Sp \o Sp \o Hostname \o <<"=", "\"", "s", "\"">>
\* "t:1 u:2 9=x hostname=s": a label name Prometheus rejects
LineBadLabelName ==
  <<"t", ":", "1">> \o Sp \o <<"u", ":", "2">> \o Sp \o <<"9", "=", "x">>
    \o Sp \o HostS

Lines ==
  { LinePlain, LineTwoLabels, LineReordered, LineMulti, LineNoHostname,
    LineEmptyHostname, LineBadValue, LineJunk, LineBothDelims, LineNoMetrics,
    LineQuoted, LineBadLabelName }

Msg(t, h, c) == [tag |-> t, hostname |-> h, content |-> c]

\* What the syslog handler can put on the channel: every line under the
\* expected tag, and one message for each transport-level defect.
Messages ==
  { Msg("nginx", "web1", c) : c \in Lines }
    \cup { Msg("cron", "web1", LinePlain),
           Msg("", "web1", LinePlain),
           Msg("nginx", "", LinePlain),
           Msg("nginx", "web1", <<>>) }

\* ------------------------------------------------- Prometheus client model
\* Label names accepted by a descriptor: non-empty, not starting with a
\* digit (the characters of the modelled lines are letters and digits).
checkLabelName(l) == l # <<>> /\ l[1] \notin Digits

NoDuplicates(names) ==
  \A j, k \in 1..Len(names) : names[j] = names[k] => j = k

\* prometheus.NewHistogramVec: a new collector object with no child
\* histogram yet.  descOk is false when the descriptor carries an error.
NewHistogramVec(name, buckets, labelNames) ==
  [Name     |-> name,
   Names    |-> labelNames,
   Buckets  |-> buckets,
   descOk   |-> NoDuplicates(labelNames)
                  /\ \A k \in 1..Len(labelNames) : checkLabelName(labelNames[k]),
   children |-> <<>>]

\* The descriptor's dimension hash covers the help string (a function of the
\* metric name here) and the SORTED label names: two descriptors of one name
\* agree on it exactly when their label names are equal as sets.
DimHash(c) == {c.Names[k] : k \in 1..Len(c.Names)}

EmptyRegistry == [collectorsByID |-> <<>>, dimHashesByName |-> <<>>]

\* Variant: a name that is registered already is registered again.
RegisterOutcomeReplace(reg, c) ==
  IF ~c.descOk THEN "invalid"
  ELSE IF c.Name \in DOMAIN reg.dimHashesByName
          /\ reg.dimHashesByName[c.Name] # DimHash(c) THEN "inconsistent"
  ELSE "ok"

\* Outcome of prometheus.Register for collector c against registry reg:
\* "invalid" (descriptor error), "inconsistent" (same name, other label
\* names), "already" (AlreadyRegisteredError) or "ok".
RegisterOutcome(reg, c) ==
  IF ~c.descOk THEN "invalid"
  ELSE IF c.Name \in DOMAIN reg.dimHashesByName
          /\ reg.dimHashesByName[c.Name] # DimHash(c) THEN "inconsistent"
  ELSE IF c.Name \in DOMAIN reg.collectorsByID THEN "already"
  ELSE "ok"

\* The registry after a successful Register of collector object id.
Registered(reg, c, id) ==
  [collectorsByID  |-> (c.Name :> id) @@ reg.collectorsByID,
   dimHashesByName |-> (c.Name :> DimHash(c)) @@ reg.dimHashesByName]

\* Index of the bucket a value falls in (sort.SearchFloat64s): the first
\* upper bound >= v, Len(buckets) + 1 when there is none.
RECURSIVE SearchBucket(_, _, _)
SearchBucket(buckets, v, k) ==
  IF k > Len(buckets) THEN k
  ELSE IF buckets[k] >= v THEN k
  ELSE SearchBucket(buckets, v, k + 1)

\* The boundaries a histogram accepts: strictly increasing.
Increasing(buckets) ==
  \A j \in 1..(Len(buckets) - 1) : buckets[j] < buckets[j + 1]

NewHistogram(buckets) ==
  [counts |-> [k \in 1..Len(buckets) |-> 0], sum |-> 0, count |-> 0]

\* histogram.Observe(v)
HistObserve(h, buckets, v) ==
  LET b == SearchBucket(buckets, v, 1)
  IN [counts |-> IF b <= Len(buckets)
                   THEN [h.counts EXCEPT ![b] = @ + 1]
                   ELSE h.counts,
      sum    |-> h.sum + v,
      count  |-> h.count + 1]

\* Variant: every call starts from a new child histogram.
VecObserveFresh(c, values, v) ==
  [c EXCEPT !.children =
     (values :> HistObserve(NewHistogram(c.Buckets), c.Buckets, v))
       @@ c.children]

\* collector.WithLabelValues(values...).Observe(v): the child histogram of
\* these label values is created on first use.
VecObserve(c, values, v) ==
  LET h == IF values \in DOMAIN c.children
             THEN c.children[values]
             ELSE NewHistogram(c.Buckets)
  IN [c EXCEPT !.children =
        (values :> HistObserve(h, c.Buckets, v)) @@ c.children]

\* Totals of a collector over all its children.
RECURSIVE SumOver(_, _, _)
SumOver(f, S, field) ==
  IF S = {} THEN 0
  ELSE LET x == CHOOSE y \in S : TRUE
       IN f[x][field] + SumOver(f, S \ {x}, field)

CollectorCount(c) == SumOver(c.children, DOMAIN c.children, "count")
CollectorSum(c) == SumOver(c.children, DOMAIN c.children, "sum")

\* ------------------------------------------------------------------- state
VARIABLES
  channel,              \* syslog.LogPartsChannel: messages waiting
  pc,                   \* position of the worker goroutine
  part,                 \* the message the worker is processing
  metrics,              \* metrics returned by parseMessage
  labels,               \* labels returned by parseMessage
  k,                    \* position of the range loop over metrics
  collector,            \* the loop's collector variable (object id)
  syslogMessages,       \* counter exporter_syslog_messages
  syslogParseFailures,  \* counter exporter_syslog_parse_failure
  msgs,                 \* the worker's local message count
  floatBuckets,         \* bucket boundaries parsed at startup
  collectors,           \* every HistogramVec object created, by object id
  registry,             \* the default Prometheus registry
  done,                 \* history: messages whose processing has finished
  regLog,               \* history: outcome of every Register call
  obsLog,               \* history: every Observe call
  proc,                 \* main goroutine, HTTP goroutine and process exit
  arrived,              \* history: messages in the order they arrived
  scrape                \* the scrape the metrics handler is serving

vars ==
  << channel, pc, part, metrics, labels, k, collector, syslogMessages,
     syslogParseFailures, msgs, floatBuckets, collectors, registry, done,
     regLog, obsLog, proc, arrived, scrape >>

NoPart == Msg("", "", <<>>)
NoLabels == [Names |-> <<>>, Values |-> <<>>]

\* Messages taken from the channel so far.
Taken == Len(done) + (IF part = NoPart THEN 0 ELSE 1)

\* No scrape in progress, none served yet.
NoScrape ==
  [pc |-> "idle", n |-> 0, todo |-> {}, counters |-> {}, seen |-> <<>>,
   counts |-> <<>>, messages |-> 0, failures |-> 0]

\* The process once main waits for a signal: listeners bound, worker and
\* web server started.
Running(metricBuckets) ==
  [main |-> "wait", http |-> "serving", exited |-> FALSE, fatal |-> "none",
   metricBuckets |-> metricBuckets]

Init ==
  /\ channel = <<>>
  /\ pc = "idle"
  /\ part = NoPart
  /\ metrics = <<>>
  /\ labels = NoLabels
  /\ k = 0
  /\ collector = 0
  /\ syslogMessages = 0
  /\ syslogParseFailures = 0
  /\ msgs = 0
  /\ parseMetricBuckets(MetricBuckets).ok
  /\ floatBuckets = parseMetricBuckets(MetricBuckets).buckets
  /\ collectors = <<>>
  /\ registry = EmptyRegistry
  /\ done = <<>>
  /\ regLog = <<>>
  /\ obsLog = <<>>
  /\ proc = Running(MetricBuckets)
  /\ arrived = <<>>
  /\ scrape = NoScrape

\* Names and collector objects the registry holds.
RegisteredNames == DOMAIN registry.collectorsByID

RegisteredIds == {registry.collectorsByID[n] : n \in RegisteredNames}

\* ----------------------------------------------------------------- actions
\* The syslog channel handler puts a received message on the channel.
Send(m) ==
  /\ Len(channel) < ChannelCapacity
  /\ Taken + Len(channel) < MaxMsgs
  /\ channel' = Append(channel, m)
  /\ arrived' = Append(arrived, m)
  /\ UNCHANGED << pc, part, metrics, labels, k, collector, syslogMessages,
                  syslogParseFailures, msgs, floatBuckets, proc, scrape, collectors,
                  registry, done, regLog, obsLog >>

\* "continue" of the outer loop: the message is finished.
LoopMessage ==
  /\ pc' = "idle"
  /\ done' = Append(done, part)
  /\ part' = NoPart
  /\ metrics' = <<>>
  /\ labels' = NoLabels
  /\ k' = 0
  /\ collector' = 0

\* Next iteration of the loop over metrics, or the end of the message.
LoopMetric ==
  IF k < Len(metrics)
    THEN /\ pc' = "register"
         /\ k' = k + 1
         /\ collector' = 0
         /\ UNCHANGED << part, metrics, labels, done >>
    ELSE LoopMessage

\* Variant: the worker takes the newest message of the channel.
ReceiveLast ==
  /\ pc = "idle"
  /\ channel # <<>>
  /\ part' = channel[Len(channel)]
  /\ channel' = SubSeq(channel, 1, Len(channel) - 1)
  /\ pc' = "count"
  /\ UNCHANGED << metrics, labels, k, collector, syslogMessages,
                  syslogParseFailures, msgs, floatBuckets, proc, arrived, scrape, collectors,
                  registry, done, regLog, obsLog >>

\* for part := range channel
Receive ==
  /\ pc = "idle"
  /\ channel # <<>>
  /\ part' = Head(channel)
  /\ channel' = Tail(channel)
  /\ pc' = "count"
  /\ UNCHANGED << metrics, labels, k, collector, syslogMessages,
                  syslogParseFailures, msgs, floatBuckets, proc, arrived, scrape, collectors,
                  registry, done, regLog, obsLog >>

\* Variant: the message is counted only once its tag has been accepted.
CountMessageAfterTag ==
  /\ pc = "count"
  /\ syslogMessages' = syslogMessages + (IF part.tag = "nginx" THEN 1 ELSE 0)
  /\ msgs' = msgs + 1
  /\ pc' = "validate"
  /\ UNCHANGED << channel, part, metrics, labels, k, collector,
                  syslogParseFailures, floatBuckets, proc, arrived, scrape, collectors, registry,
                  done, regLog, obsLog >>

\* syslogMessages.Inc(); msgs++
CountMessage ==
  /\ pc = "count"
  /\ syslogMessages' = syslogMessages + 1
  /\ msgs' = msgs + 1
  /\ pc' = "validate"
  /\ UNCHANGED << channel, part, metrics, labels, k, collector,
                  syslogParseFailures, floatBuckets, proc, arrived, scrape, collectors, registry,
                  done, regLog, obsLog >>

\* Variant: a message with a wrong tag ends the loop instead of continuing.
ValidateReturnsOnWrongTag ==
  /\ pc = "validate"
  /\ IF part.tag # "nginx"
       THEN /\ syslogParseFailures' = syslogParseFailures + 1
            /\ pc' = "returned"
            /\ UNCHANGED << part, metrics, labels, k, collector, done >>
     ELSE IF part.hostname = ""
       THEN syslogParseFailures' = syslogParseFailures + 1 /\ LoopMessage
     ELSE IF part.content = <<>>
       THEN syslogParseFailures' = syslogParseFailures + 1 /\ LoopMessage
     ELSE /\ pc' = "parse"
          /\ UNCHANGED << part, metrics, labels, k, collector, done,
                          syslogParseFailures >>
  /\ UNCHANGED << channel, syslogMessages, msgs, floatBuckets, proc, arrived,
                  scrape, collectors, registry, regLog, obsLog >>

\* Variant: the check for empty content is missing.
ValidateNoContentCheck ==
  /\ pc = "validate"
  /\ IF part.tag # "nginx"
       THEN syslogParseFailures' = syslogParseFailures + 1 /\ LoopMessage
     ELSE IF part.hostname = ""
       THEN syslogParseFailures' = syslogParseFailures + 1 /\ LoopMessage
     ELSE /\ pc' = "parse"
          /\ UNCHANGED << part, metrics, labels, k, collector, done,
                          syslogParseFailures >>
  /\ UNCHANGED << channel, syslogMessages, msgs, floatBuckets, proc, arrived, scrape, collectors,
                  registry, regLog, obsLog >>

\* The three transport-level checks: tag, hostname, content.
Validate ==
  /\ pc = "validate"
  /\ IF part.tag # "nginx"
       THEN syslogParseFailures' = syslogParseFailures + 1 /\ LoopMessage
     ELSE IF part.hostname = ""
       THEN syslogParseFailures' = syslogParseFailures + 1 /\ LoopMessage
     ELSE IF part.content = <<>>
       THEN syslogParseFailures' = syslogParseFailures + 1 /\ LoopMessage
     ELSE /\ pc' = "parse"
          /\ UNCHANGED << part, metrics, labels, k, collector, done,
                          syslogParseFailures >>
  /\ UNCHANGED << channel, syslogMessages, msgs, floatBuckets, proc, arrived, scrape, collectors,
                  registry, regLog, obsLog >>

\* The worker enters the loop over the metrics of a parsed line.
RangeMetrics(r) ==
  IF r.metrics = <<>>
    THEN LoopMessage
    ELSE /\ pc' = "register"
         /\ metrics' = r.metrics
         /\ labels' = [Names |-> r.Names, Values |-> r.Values]
         /\ k' = 1
         /\ collector' = 0
         /\ UNCHANGED << part, done >>

\* Variant: tokens the parser rejects are skipped instead of failing the line.
ParseBestEffort ==
  /\ pc = "parse"
  /\ LET good == SelectSeq(Fields(part.content),
                           LAMBDA t : ParseToken(t).kind # "error")
         r    == ParseTokens(good, EmptyParse)
     IN IF ~HasHostname(r.Names, r.Values) THEN LoopMessage ELSE RangeMetrics(r)
  /\ UNCHANGED << channel, syslogMessages, syslogParseFailures, msgs,
                  floatBuckets, proc, arrived, scrape, collectors, registry, regLog, obsLog >>

\* Variant: a line without hostname label is processed like any other.
ParseHostnameOptional ==
  /\ pc = "parse"
  /\ LET r == ParseTokens(Fields(part.content), EmptyParse)
     IN IF r.err # NoError THEN LoopMessage ELSE RangeMetrics(r)
  /\ UNCHANGED << channel, syslogMessages, syslogParseFailures, msgs,
                  floatBuckets, proc, arrived, scrape, collectors, registry, regLog, obsLog >>

\* Variant: a line without metrics is counted as a parse failure.
ParseEmptyCounted ==
  /\ pc = "parse"
  /\ LET r == parseMessage(part.content)
     IN /\ IF r.err # NoError THEN LoopMessage ELSE RangeMetrics(r)
        /\ syslogParseFailures' =
             syslogParseFailures
               + (IF r.err = NoError /\ r.metrics = <<>> THEN 1 ELSE 0)
  /\ UNCHANGED << channel, syslogMessages, msgs,
                  floatBuckets, proc, arrived, scrape, collectors, registry, regLog, obsLog >>

\* metrics, labels, err := parseMessage(content); an error is logged and
\* the message dropped.
Parse ==
  /\ pc = "parse"
  /\ \E r \in {parseMessage(part.content)} :
       IF r.err # NoError THEN LoopMessage ELSE RangeMetrics(r)
  /\ UNCHANGED << channel, syslogMessages, syslogParseFailures, msgs,
                  floatBuckets, proc, arrived, scrape, collectors, registry, regLog, obsLog >>

\* are.ExistingCollector replaces the freshly created collector.
AdoptExistingKeepFresh(fresh, existing) == fresh

AdoptExisting(fresh, existing) == existing

\* A registration error that is not AlreadyRegisteredError: log, continue.
RegisterFailedBreak ==
  /\ LoopMessage
  /\ UNCHANGED syslogParseFailures

RegisterFailedCounted ==
  /\ LoopMetric
  /\ syslogParseFailures' = syslogParseFailures + 1

RegisterFailed ==
  /\ LoopMetric
  /\ UNCHANGED syslogParseFailures

\* NewHistogramVec followed by prometheus.Register.  use is the object the
\* collector variable holds afterwards (0 when the metric is dropped).
RegisterMetric ==
  /\ pc = "register"
  /\ LET c   == NewHistogramVec(metrics[k].Name, floatBuckets, labels.Names)
         id  == Len(collectors) + 1
         out == RegisterOutcome(registry, c)
         use == IF out = "ok" THEN id
                ELSE IF out = "already"
                  THEN AdoptExisting(id, registry.collectorsByID[c.Name])
                ELSE 0
     IN /\ collectors' = Append(collectors, c)
        /\ regLog' = Append(regLog,
             [msg |-> Len(done) + 1, tok |-> k, id |-> id, name |-> c.Name,
              names |-> c.Names, value |-> metrics[k].Value,
              outcome |-> out, use |-> use])
        /\ registry' = IF out = "ok" THEN Registered(registry, c, id)
                       ELSE registry
        /\ IF out \in {"ok", "already"}
             THEN /\ collector' = use
                  /\ pc' = "observe"
                  /\ UNCHANGED << part, metrics, labels, k, done,
                                  syslogParseFailures >>
             ELSE RegisterFailed
  /\ UNCHANGED << channel, syslogMessages, msgs, floatBuckets, proc, arrived, scrape, obsLog >>

\* collector.WithLabelValues(labels.Values...).Observe(metric.Value).
\* WithLabelValues panics when the number of values is not the number of
\* label names of the collector, and when it has to create the child
\* histogram and the bucket boundaries are not strictly increasing; a panic
\* in the worker goroutine ends the process.
ObserveMetric ==
  /\ pc = "observe"
  /\ IF \/ Len(labels.Values) # Len(collectors[collector].Names)
        \/ /\ labels.Values \notin DOMAIN collectors[collector].children
           /\ ~Increasing(collectors[collector].Buckets)
       THEN /\ pc' = "panicked"
            /\ UNCHANGED << part, metrics, labels, k, collector, done,
                            collectors, obsLog >>
       ELSE /\ collectors' =
                 [collectors EXCEPT ![collector] =
                    VecObserve(@, labels.Values, metrics[k].Value)]
            /\ obsLog' = Append(obsLog,
                 [msg |-> Len(done) + 1, tok |-> k, id |-> collector,
                  values |-> labels.Values, value |-> metrics[k].Value])
            /\ LoopMetric
  /\ UNCHANGED << channel, syslogMessages, syslogParseFailures, msgs,
                  floatBuckets, proc, arrived, scrape, registry, regLog >>

Next ==
  \/ \E m \in Messages : Send(m)
  \/ Receive
  \/ CountMessage
  \/ Validate
  \/ Parse
  \/ RegisterMetric
  \/ ObserveMetric

Spec == Init /\ [][Next]_vars

\* The steps of the worker goroutine.
Worker ==
  \/ Receive
  \/ CountMessage
  \/ Validate
  \/ Parse
  \/ RegisterMetric
  \/ ObserveMetric

\* The failure classes of one message, one representative each: a line
\* that is observed, a line whose registration fails against the first, a
\* line the parser rejects, a message of another program.
LiveMessages ==
  { Msg("nginx", "web1", LinePlain), Msg("nginx", "web1", LineTwoLabels),
    Msg("nginx", "web1", LineNoHostname), Msg("cron", "web1", LinePlain) }

NextLive ==
  \/ \E m \in LiveMessages : Send(m)
  \/ Worker

\* The Go scheduler runs the worker goroutine whenever it can take a step.
SpecLive == Init /\ [][NextLive]_vars /\ WF_vars(Worker)

\* ------------------------------------------------------- the whole process
\* main from its first statement: the bucket list is parsed, the syslog
\* server is bound and booted, the worker goroutine and the web server
\* goroutine are started, then main waits for a signal.

\* Values of the histogram.buckets parameter: ".5, 1", "1,.5" (parsed, not
\* increasing) and "1,x" (not parsed).
BucketsDecreasing == <<"1", ",", ".", "5">>
BucketsUnparsable == <<"1", ",", "x">>

BucketConfigs == {MetricBuckets, BucketsDecreasing, BucketsUnparsable}

\* Messages nginx and other programs send to the listener in these runs.
ProcessMessages ==
  { Msg("nginx", "web1", LinePlain), Msg("nginx", "web1", LineMulti),
    Msg("cron", "web1", LinePlain) }

\* The process has neither exited nor died of a panic in the worker.
Alive == ~proc.exited /\ pc # "panicked"

\* log.Fatal and os.Exit: every goroutine stops where it is.
Exit(cause) ==
  /\ proc' = [proc EXCEPT !.exited = TRUE, !.fatal = cause]
  /\ pc' = "exited"

InitProcess ==
  /\ channel = <<>>
  /\ pc = "off"
  /\ part = NoPart
  /\ metrics = <<>>
  /\ labels = NoLabels
  /\ k = 0
  /\ collector = 0
  /\ syslogMessages = 0
  /\ syslogParseFailures = 0
  /\ msgs = 0
  /\ floatBuckets = <<>>
  /\ collectors = <<>>
  /\ registry = EmptyRegistry
  /\ done = <<>>
  /\ regLog = <<>>
  /\ obsLog = <<>>
  /\ \E b \in BucketConfigs :
       proc = [main |-> "parseBuckets", http |-> "off", exited |-> FALSE,
               fatal |-> "none", metricBuckets |-> b]
  /\ arrived = <<>>
  /\ scrape = NoScrape

\* floatBuckets := parseMetricBuckets(parameters["metricBuckets"])
MainParseBuckets ==
  /\ Alive
  /\ proc.main = "parseBuckets"
  /\ \E r \in {parseMetricBuckets(proc.metricBuckets)} :
       IF r.ok
         THEN /\ floatBuckets' = r.buckets
              /\ proc' = [proc EXCEPT !.main = "setupSyslog"]
              /\ UNCHANGED pc
         ELSE /\ Exit("buckets")
              /\ UNCHANGED floatBuckets
  /\ UNCHANGED << channel, part, metrics, labels, k, collector, syslogMessages,
                  syslogParseFailures, msgs, collectors, registry, done,
                  regLog, obsLog, arrived, scrape >>

\* setupSyslogServer: ListenUDP or ListenUnixgram, then Boot; an error of
\* either is fatal.
MainSetupSyslog ==
  /\ Alive
  /\ proc.main = "setupSyslog"
  /\ \E bound \in BOOLEAN :
       IF bound
         THEN proc' = [proc EXCEPT !.main = "startWorker"] /\ UNCHANGED pc
         ELSE Exit("syslog")
  /\ UNCHANGED << channel, part, metrics, labels, k, collector, syslogMessages,
                  syslogParseFailures, msgs, floatBuckets, collectors, registry,
                  done, regLog, obsLog, arrived, scrape >>

\* setupSyslogSystemMetrics, then processMetricsFromSyslog starts the worker
\* goroutine and returns.
MainStartWorker ==
  /\ Alive
  /\ proc.main = "startWorker"
  /\ pc' = "idle"
  /\ proc' = [proc EXCEPT !.main = "startWebServer"]
  /\ UNCHANGED << channel, part, metrics, labels, k, collector, syslogMessages,
                  syslogParseFailures, msgs, floatBuckets, collectors, registry,
                  done, regLog, obsLog, arrived, scrape >>

\* startWebServer registers the handlers, starts the goroutine that will
\* call http.ListenAndServe and returns; main goes on to waitForShutdown.
MainStartWebServer ==
  /\ Alive
  /\ proc.main = "startWebServer"
  /\ proc' = [proc EXCEPT !.main = "wait", !.http = "binding"]
  /\ UNCHANGED << channel, pc, part, metrics, labels, k, collector,
                  syslogMessages, syslogParseFailures, msgs, floatBuckets,
                  collectors, registry, done, regLog, obsLog, arrived, scrape >>

\* log.Fatal(http.ListenAndServe(listenAddress, nil)) in the web server
\* goroutine: the listener is bound and serves, or the process exits.
HttpListen ==
  /\ Alive
  /\ proc.http = "binding"
  /\ \E bound \in BOOLEAN :
       IF bound
         THEN proc' = [proc EXCEPT !.http = "serving"] /\ UNCHANGED pc
         ELSE Exit("http")
  /\ UNCHANGED << channel, part, metrics, labels, k, collector, syslogMessages,
                  syslogParseFailures, msgs, floatBuckets, collectors, registry,
                  done, regLog, obsLog, arrived, scrape >>

\* waitForShutdown: SIGTERM or SIGINT ends the process with status 0.
Shutdown ==
  /\ Alive
  /\ proc.main = "wait"
  /\ Exit("none")
  /\ UNCHANGED << channel, part, metrics, labels, k, collector, syslogMessages,
                  syslogParseFailures, msgs, floatBuckets, collectors, registry,
                  done, regLog, obsLog, arrived, scrape >>

\* The booted syslog server receives a datagram and its handler puts the
\* message on the channel.
Ingress(m) ==
  /\ Alive
  /\ proc.main \in {"startWorker", "startWebServer", "wait"}
  /\ Send(m)

\* promhttp.Handler: Gather takes the collectors registered at this moment.
ScrapeStart ==
  /\ Alive
  /\ proc.http = "serving"
  /\ scrape.pc \in {"idle", "done"}
  /\ scrape.n < MaxScrapes
  /\ scrape' = [scrape EXCEPT !.pc = "gather", !.n = @ + 1,
                              !.todo = RegisteredIds,
                              !.counters = {"messages", "failures"},
                              !.seen = <<>>]
  /\ UNCHANGED << channel, pc, part, metrics, labels, k, collector,
                  syslogMessages, syslogParseFailures, msgs, floatBuckets,
                  collectors, registry, done, regLog, obsLog, proc, arrived >>

\* Gather collects one histogram collector: its count as it is now.  seen
\* remembers how many Observe calls had been made at that moment.
ScrapeCollect(id) ==
  /\ Alive
  /\ scrape.pc = "gather"
  /\ id \in scrape.todo
  /\ scrape' = [scrape EXCEPT
                  !.todo = @ \ {id},
                  !.seen = (id :> Len(obsLog)) @@ @,
                  !.counts = (id :> CollectorCount(collectors[id])) @@ @]
  /\ UNCHANGED << channel, pc, part, metrics, labels, k, collector,
                  syslogMessages, syslogParseFailures, msgs, floatBuckets,
                  collectors, registry, done, regLog, obsLog, proc, arrived >>

\* Gather collects one of the two counters.
ScrapeCounter(c) ==
  /\ Alive
  /\ scrape.pc = "gather"
  /\ c \in scrape.counters
  /\ scrape' = [scrape EXCEPT
                  !.counters = @ \ {c},
                  !.messages = IF c = "messages" THEN syslogMessages ELSE @,
                  !.failures = IF c = "failures" THEN syslogParseFailures ELSE @]
  /\ UNCHANGED << channel, pc, part, metrics, labels, k, collector,
                  syslogMessages, syslogParseFailures, msgs, floatBuckets,
                  collectors, registry, done, regLog, obsLog, proc, arrived >>

\* Every collector has been collected: the response is written.
ScrapeEnd ==
  /\ Alive
  /\ scrape.pc = "gather"
  /\ scrape.todo = {}
  /\ scrape.counters = {}
  /\ scrape' = [scrape EXCEPT !.pc = "done"]
  /\ UNCHANGED << channel, pc, part, metrics, labels, k, collector,
                  syslogMessages, syslogParseFailures, msgs, floatBuckets,
                  collectors, registry, done, regLog, obsLog, proc, arrived >>

NextProcess ==
  \/ MainParseBuckets
  \/ MainSetupSyslog
  \/ MainStartWorker
  \/ MainStartWebServer
  \/ HttpListen
  \/ Shutdown
  \/ \E m \in ProcessMessages : Ingress(m)
  \/ ScrapeStart
  \/ \E id \in scrape.todo : ScrapeCollect(id)
  \/ \E c \in scrape.counters : ScrapeCounter(c)
  \/ ScrapeEnd
  \/ Worker

SpecProcess == InitProcess /\ [][NextProcess]_vars

TypeOK ==
  /\ pc \in {"off", "idle", "count", "validate", "parse", "register",
             "observe", "panicked", "exited"}
  /\ syslogMessages \in Nat
  /\ syslogParseFailures \in Nat
  /\ Len(done) <= MaxMsgs

\* ============================================================== properties
\* Vocabulary of the properties.

\* The message fails one of the transport-level checks.
TransportBad(m) == m.tag # "nginx" \/ m.hostname = "" \/ m.content = <<>>

\* The line parser reports an error for the content of the message.
LineFails(m) == parseMessage(m.content).err # NoError

\* The message fails for some reason: transport level or grammar.
MsgFails(m) == TransportBad(m) \/ LineFails(m)

DoneIdx == 1..Len(done)

FailedCount == Cardinality({i \in DoneIdx : MsgFails(done[i])})

RegIdx == 1..Len(regLog)
ObsIdx == 1..Len(obsLog)

Resolved(e) == e.outcome \in {"ok", "already"}

\* Observe calls made for token j of message i.
ObsOf(i, j) == {o \in ObsIdx : obsLog[o].msg = i /\ obsLog[o].tok = j}

\* Register calls made for token j of message i.
RegOf(i, j) == {r \in RegIdx : regLog[r].msg = i /\ regLog[r].tok = j}

RECURSIVE SumValues(_, _)
SumValues(log, S) ==
  IF S = {} THEN 0
  ELSE LET x == CHOOSE y \in S : TRUE
       IN log[x].value + SumValues(log, S \ {x})

\* ---------------------------------------------------------------------- C1
\* C1: message-counter invariant.  Whenever the worker is between two
\* messages, the parse-failure counter equals the number K of processed
\* messages that failed for any reason (wrong tag, missing transport
\* hostname, empty content, parser error) and the received counter equals
\* the number M of processed messages.
C1_MessageCounters ==
  pc = "idle" =>
    /\ syslogParseFailures = FailedCount
    /\ syslogMessages = Len(done)

\* ---------------------------------------------------------------------- C2
\* C2: create-or-adopt.  Every successful resolution of a metric name uses
\* the one collector the registry holds for that name; a created collector
\* that was not published never receives an observation; and the published
\* collector's count and sum are the number and the sum of the values of the
\* resolutions observed so far.
C2_CreateOrAdopt ==
  /\ \A r \in RegIdx :
       Resolved(regLog[r]) =>
         /\ regLog[r].name \in RegisteredNames
         /\ regLog[r].use = registry.collectorsByID[regLog[r].name]
  /\ \A id \in 1..Len(collectors) :
       id \notin RegisteredIds => collectors[id].children = <<>>
  /\ \A n \in RegisteredNames :
       LET c       == collectors[registry.collectorsByID[n]]
           pending == IF pc = "observe" THEN {Len(regLog)} ELSE {}
           res     == {r \in RegIdx : regLog[r].name = n /\ Resolved(regLog[r])}
                        \ pending
       IN /\ CollectorCount(c) = Cardinality(res)
          /\ CollectorSum(c) = SumValues(regLog, res)

\* Two resolutions of one identity, the second adopting the collector of the
\* first, both observed.
C2_Witness ==
  /\ pc = "idle"
  /\ \E r1, r2 \in RegIdx :
       /\ regLog[r1].outcome = "ok"
       /\ regLog[r2].outcome = "already"
       /\ regLog[r1].name = regLog[r2].name
       /\ regLog[r1].names = regLog[r2].names
       /\ regLog[r2].id # regLog[r2].use
       /\ CollectorCount(collectors[regLog[r1].id]) = 2

\* ---------------------------------------------------------------------- C3
\* C3: label-set conflict.  A resolution of a registered metric name with a
\* label-name sequence other than the registered collector's fails, and no
\* observation is recorded for that metric token.
C3_LabelSetConflict ==
  \A r \in RegIdx :
    LET e == regLog[r]
    IN (/\ e.name \in RegisteredNames
        /\ registry.collectorsByID[e.name] # e.id
        /\ collectors[registry.collectorsByID[e.name]].Names # e.names)
         => /\ ~Resolved(e)
            /\ ObsOf(e.msg, e.tok) = {}

\* ---------------------------------------------------------------------- C4
\* C4: transport-level validation.  The validation step of a message with a
\* wrong tag, an empty transport hostname or empty content increments the
\* parse-failure counter by one and ends the processing of the message; the
\* parser is not reached, no collector is created and no observation is
\* recorded for such a message.
C4_TransportValidation ==
  /\ [](\A i \in DoneIdx :
          TransportBad(done[i]) =>
            /\ \A r \in RegIdx : regLog[r].msg # i
            /\ \A o \in ObsIdx : obsLog[o].msg # i)
  /\ [][(pc = "validate" /\ pc' # pc /\ TransportBad(part)) =>
          /\ syslogParseFailures' = syslogParseFailures + 1
          /\ pc' = "idle"
          /\ done' = Append(done, part)
          /\ UNCHANGED << collectors, registry, regLog, obsLog >>]_vars

\* Two messages with different transport defects were dropped and counted.
C4_Witness ==
  /\ Len(done) = 2
  /\ TransportBad(done[1])
  /\ TransportBad(done[2])
  /\ done[1].content = <<>>
  /\ done[2].tag # "nginx"
  /\ syslogParseFailures = 2

\* ---------------------------------------------------------------------- C5
\* C5: the received counter counts every message taken from the channel
\* exactly once, before the message is validated and whatever becomes of
\* it, and never decreases.
C5_ReceivedCounter ==
  /\ [](syslogMessages = Taken - (IF pc = "count" THEN 1 ELSE 0))
  /\ [][syslogMessages' >= syslogMessages]_vars

\* A dropped message and a parsed one have both been counted.
C5_Witness ==
  /\ Len(done) = 2
  /\ syslogMessages = 2
  /\ \E i \in DoneIdx : TransportBad(done[i])
  /\ \E i \in DoneIdx : ~MsgFails(done[i])

\* ---------------------------------------------------------------------- C6
\* The parse result of a message and the metric tokens of a line.
Parsed(m) == parseMessage(m.content)

TokIdx(m) == 1..Len(Parsed(m).metrics)

\* Token j of message m resolves: its name is registered, the line's label
\* names make a valid descriptor and agree with the registered dimension.
TokenResolves(m, j) ==
  LET r == Parsed(m)
      n == r.metrics[j].Name
  IN /\ n \in RegisteredNames
     /\ NoDuplicates(r.Names)
     /\ \A x \in 1..Len(r.Names) : checkLabelName(r.Names[x])
     /\ {r.Names[x] : x \in 1..Len(r.Names)} = registry.dimHashesByName[n]

\* C6: one observation per metric token.  Every metric token of a processed
\* message that passed validation and parsing, and whose identity resolves,
\* has exactly one Observe call, made on the registered collector of its
\* name with the line's label values and the token's value; between two
\* messages a collector's count is the number of such tokens of its name.
C6_OneObservationPerToken ==
  /\ \A i \in DoneIdx :
       ~MsgFails(done[i]) =>
         \A j \in TokIdx(done[i]) :
           TokenResolves(done[i], j) =>
             /\ Cardinality(ObsOf(i, j)) = 1
             /\ \A o \in ObsOf(i, j) :
                  /\ obsLog[o].id =
                       registry.collectorsByID[Parsed(done[i]).metrics[j].Name]
                  /\ obsLog[o].values = Parsed(done[i]).Values
                  /\ obsLog[o].value = Parsed(done[i]).metrics[j].Value
  /\ pc = "idle" =>
       \A n \in RegisteredNames :
         CollectorCount(collectors[registry.collectorsByID[n]]) =
           Cardinality(UNION {{<<i, j>> : j \in {x \in TokIdx(done[i]) :
                                  /\ Parsed(done[i]).metrics[x].Name = n
                                  /\ TokenResolves(done[i], x)}} :
                              i \in {y \in DoneIdx : ~MsgFails(done[y])}})

\* One line reported the same metric name twice and both were observed on
\* the same collector.
C6_Witness ==
  /\ pc = "idle"
  /\ \E o1, o2 \in ObsIdx :
       /\ o1 # o2
       /\ obsLog[o1].msg = obsLog[o2].msg
       /\ obsLog[o1].id = obsLog[o2].id
       /\ CollectorCount(collectors[obsLog[o1].id]) >= 2

\* ---------------------------------------------------------------------- C7
\* C7: per-metric failure isolation.  Every metric token of a processed
\* message that passed validation and parsing is resolved exactly once,
\* whatever happened to the other tokens of the line, and is observed
\* exactly once when its resolution succeeds and not at all when it fails.
C7_FailureIsolation ==
  \A i \in DoneIdx :
    ~MsgFails(done[i]) =>
      \A j \in TokIdx(done[i]) :
        /\ Cardinality(RegOf(i, j)) = 1
        /\ \A r \in RegOf(i, j) :
             Cardinality(ObsOf(i, j)) = IF Resolved(regLog[r]) THEN 1 ELSE 0

\* A line whose second metric failed to register while the metrics before
\* and after it were observed.
C7_Witness ==
  \E i \in DoneIdx :
    /\ ~MsgFails(done[i])
    /\ Len(Parsed(done[i]).metrics) = 3
    /\ \E r \in RegOf(i, 2) : regLog[r].outcome = "inconsistent"
    /\ Cardinality(ObsOf(i, 1)) = 1
    /\ Cardinality(ObsOf(i, 2)) = 0
    /\ Cardinality(ObsOf(i, 3)) = 1

\* ---------------------------------------------------------------------- C8
\* C8: no step the worker takes for a message that passed validation and
\* parsing (registering or observing one of its metrics) changes the
\* parse-failure counter, also when the registration fails.
C8_ConflictNotCounted ==
  [][(pc \in {"register", "observe"} \/ (pc = "parse" /\ ~LineFails(part)))
       => syslogParseFailures' = syslogParseFailures]_vars

\* Two messages were processed, a registration failed with a label-set
\* conflict and the parse-failure counter is still zero.
C8_Witness ==
  /\ pc = "idle"
  /\ Len(done) = 2
  /\ \E r \in RegIdx : regLog[r].outcome = "inconsistent"
  /\ syslogParseFailures = 0

\* ---------------------------------------------------------------------- C9
\* C9: a line is accepted or rejected as a whole.  For a message whose
\* content the parser rejects, no collector is created (no Register call)
\* and no observation is recorded, and the worker never reaches the metric
\* loop with such a message.
C9_LineRejectedAsWhole ==
  /\ \A i \in DoneIdx :
       (~TransportBad(done[i]) /\ LineFails(done[i])) =>
         /\ \A r \in RegIdx : regLog[r].msg # i
         /\ \A o \in ObsIdx : obsLog[o].msg # i
  /\ pc \in {"register", "observe"} => ~LineFails(part)
  /\ Len(collectors) = Len(regLog)

\* A rejected line that starts with a well-formed metric token.
C9_Witness ==
  \E i \in DoneIdx :
    /\ ~TransportBad(done[i])
    /\ Parsed(done[i]).err \in {"InvalidMetricValue", "MalformedToken"}
    /\ ParseToken(Fields(done[i].content)[1]).kind = "metric"

\* --------------------------------------------------------------------- C10
\* The label tokens of the content include no hostname label with a
\* non-empty value.
LacksHostname(content) ==
  ~ \E x \in 1..Len(Fields(content)) :
      LET t == ParseToken(Fields(content)[x])
      IN t.kind = "label" /\ t.Name = Hostname /\ t.Value # <<>>

WellFormed(content) ==
  \A x \in 1..Len(Fields(content)) :
    ParseToken(Fields(content)[x]).kind # "error"

\* C10: the in-line hostname label is mandatory.  A message whose line has
\* no hostname label with a non-empty value is rejected by the parser (with
\* the missing-hostname error when its tokens are well-formed), and none of
\* its metrics is registered or observed.
C10_HostnameMandatory ==
  \A i \in DoneIdx :
    (~TransportBad(done[i]) /\ LacksHostname(done[i].content)) =>
      /\ LineFails(done[i])
      /\ WellFormed(done[i].content) =>
           Parsed(done[i]).err = "MissingHostname"
      /\ \A r \in RegIdx : regLog[r].msg # i
      /\ \A o \in ObsIdx : obsLog[o].msg # i

\* A well-formed line with a metric token and no hostname was dropped.
C10_Witness ==
  \E i \in DoneIdx :
    /\ ~TransportBad(done[i])
    /\ LacksHostname(done[i].content)
    /\ Parsed(done[i]).err = "MissingHostname"
    /\ ParseToken(Fields(done[i].content)[1]).kind = "metric"

\* --------------------------------------------------------------------- C11
\* The tokens of a line that carry the given delimiter, in line order.
TokensWith(content, delim) ==
  SelectSeq(Fields(content), LAMBDA t : Contains(t, delim))

KeyOf(tok, delim) == SubSeq(tok, 1, Index(tok, delim) - 1)

\* The parse result has one metric per colon token and one label per equals
\* token, in line order, with names and values aligned.
OnePerToken(content) ==
  LET r  == parseMessage(content)
      ms == TokensWith(content, ":")
      ls == TokensWith(content, "=")
  IN /\ r.err = NoError
     /\ Len(r.metrics) = Len(ms)
     /\ \A x \in 1..Len(ms) : r.metrics[x].Name = KeyOf(ms[x], ":")
     /\ Len(r.Names) = Len(ls)
     /\ Len(r.Values) = Len(ls)
     /\ \A x \in 1..Len(ls) :
          /\ r.Names[x] = KeyOf(ls[x], "=")
          /\ r.Values[x] =
               StripQuotes(SubSeq(ls[x], Index(ls[x], "=") + 1, Len(ls[x])))

\* C11 as stated: every well-formed line a message carried to the parser is
\* parsed into one metric per colon token and one label per equals token,
\* in order and aligned.
C11_OnePerTokenAnyLine ==
  \A i \in DoneIdx :
    (~TransportBad(done[i]) /\ WellFormed(done[i].content)) =>
      OnePerToken(done[i].content)

\* C11 amended: the same for every well-formed line that has a hostname
\* label with a non-empty value; and the worker's metrics and labels are
\* that parse result while it works on the line.
C11_OnePerTokenWithHostname ==
  /\ \A i \in DoneIdx :
       (/\ ~TransportBad(done[i])
        /\ WellFormed(done[i].content)
        /\ ~LacksHostname(done[i].content)) =>
         OnePerToken(done[i].content)
  /\ pc \in {"register", "observe"} =>
       /\ OnePerToken(part.content)
       /\ metrics = parseMessage(part.content).metrics
       /\ labels.Names = parseMessage(part.content).Names
       /\ labels.Values = parseMessage(part.content).Values

\* A processed line with three metric tokens and two label tokens.
C11_Witness ==
  \E i \in DoneIdx :
    /\ ~MsgFails(done[i])
    /\ Len(TokensWith(done[i].content, ":")) = 3
    /\ Len(TokensWith(done[i].content, "=")) = 2
    /\ \E o \in ObsIdx : obsLog[o].msg = i /\ obsLog[o].tok = 3

\* --------------------------------------------------------------------- C18
\* C18: label alignment.  Every recorded observation was made on a collector
\* whose label names are, position by position, the label names of the line
\* the values come from, so each value is attributed to its own name and
\* the number of values is the collector's number of label names.
C18_LabelAlignment ==
  \A o \in ObsIdx :
    \A r \in RegOf(obsLog[o].msg, obsLog[o].tok) :
      /\ collectors[obsLog[o].id].Names = regLog[r].names
      /\ Len(obsLog[o].values) = Len(collectors[obsLog[o].id].Names)

\* --------------------------------------------------------------------- C12
ZeroMetricTokens(content) == TokensWith(content, ":") = <<>>

NoTraceOf(i) ==
  /\ \A r \in RegIdx : regLog[r].msg # i
  /\ \A o \in ObsIdx : obsLog[o].msg # i

\* C12 as stated: content that is empty or has no metric token is accepted
\* by the parser with an empty metric sequence, creates no collector,
\* records no observation and is not counted as a failure of the message.
C12_EmptyOrNoMetricsAccepted ==
  /\ [](\A i \in DoneIdx :
          (/\ done[i].tag = "nginx"
           /\ done[i].hostname # ""
           /\ WellFormed(done[i].content)
           /\ ZeroMetricTokens(done[i].content)) => NoTraceOf(i))
  /\ [][(/\ pc \in {"validate", "parse"}
         /\ pc' # pc
         /\ part.tag = "nginx"
         /\ part.hostname # ""
         /\ WellFormed(part.content)
         /\ ZeroMetricTokens(part.content)) =>
          /\ syslogParseFailures' = syslogParseFailures
          /\ pc = "parse" =>
               /\ parseMessage(part.content).err = NoError
               /\ parseMessage(part.content).metrics = <<>>]_vars

\* C12 amended: content without metric token that has a hostname label is
\* accepted with an empty metric sequence, creates no collector, records no
\* observation and leaves the parse-failure counter unchanged; empty content
\* does not reach the parser: validation drops the message and counts one
\* parse failure.
C12_NoMetricsNoOp ==
  /\ [](\A i \in DoneIdx :
          (/\ ~TransportBad(done[i])
           /\ WellFormed(done[i].content)
           /\ ~LacksHostname(done[i].content)
           /\ ZeroMetricTokens(done[i].content)) =>
            /\ parseMessage(done[i].content).err = NoError
            /\ parseMessage(done[i].content).metrics = <<>>
            /\ NoTraceOf(i))
  /\ [][(/\ pc \in {"validate", "parse"}
         /\ pc' # pc
         /\ ~TransportBad(part)
         /\ WellFormed(part.content)
         /\ ~LacksHostname(part.content)
         /\ ZeroMetricTokens(part.content)) =>
          /\ syslogParseFailures' = syslogParseFailures
          /\ pc = "parse" =>
               /\ pc' = "idle"
               /\ done' = Append(done, part)
               /\ UNCHANGED << collectors, registry >>]_vars
  /\ [][(/\ pc = "validate"
         /\ pc' # pc
         /\ part.tag = "nginx"
         /\ part.hostname # ""
         /\ part.content = <<>>) =>
          /\ syslogParseFailures' = syslogParseFailures + 1
          /\ pc' = "idle"]_vars

\* A line of labels only was processed and left nothing behind, and a
\* message with empty content was counted as a failure.
C12_Witness ==
  /\ pc = "idle"
  /\ Len(done) = 2
  /\ ~TransportBad(done[1])
  /\ ~LineFails(done[1])
  /\ ZeroMetricTokens(done[1].content)
  /\ done[2] = Msg("nginx", "web1", <<>>)
  /\ collectors = <<>>
  /\ syslogParseFailures = 1

BucketsValid(metricBuckets) ==
  /\ parseMetricBuckets(metricBuckets).ok
  /\ Increasing(parseMetricBuckets(metricBuckets).buckets)

\* The message the worker holds, as a sequence.
InFlight == IF part = NoPart THEN <<>> ELSE <<part>>

\* Log entry a belongs to an earlier message than b, or to an earlier token
\* of the same message.
Before(a, b) == a.msg < b.msg \/ (a.msg = b.msg /\ a.tok < b.tok)

\* Messages leave the channel in the order they arrived.
ArrivalOrder == arrived = done \o InFlight \o channel

\* Register and Observe calls happen message by message, and token by token
\* within a message; a message is counted before its first call and after
\* the last call of the message before it.
OneAtATime ==
  /\ \A i, j \in ObsIdx : i < j => Before(obsLog[i], obsLog[j])
  /\ \A i, j \in RegIdx : i < j => Before(regLog[i], regLog[j])
  /\ \A i \in ObsIdx : obsLog[i].msg <= syslogMessages
  /\ \A i \in RegIdx : regLog[i].msg <= syslogMessages
  /\ Len(done) <= syslogMessages /\ syslogMessages <= Taken

\* Observe call o is part of what the scrape has collected.
Visible(o) ==
  /\ obsLog[o].id \in DOMAIN scrape.seen
  /\ o <= scrape.seen[obsLog[o].id]

\* What a finished scrape shows of any line is a prefix of the line's
\* observations.
ScrapeSeesPrefix ==
  scrape.pc = "done" =>
    \A i, j \in ObsIdx :
      (i < j /\ obsLog[i].msg = obsLog[j].msg /\ Visible(j)) => Visible(i)

\* --------------------------------------------------------------------- C14
\* C14: every collector carries the bucket boundaries parsed at startup, and
\* in a run whose bucket list does not parse into strictly increasing numbers
\* no message is ever taken and the worker never fails on a message.
C14_BucketsCheckedAtStartup ==
  /\ \A id \in DOMAIN collectors : collectors[id].Buckets = floatBuckets
  /\ ~BucketsValid(proc.metricBuckets) => (Taken = 0 /\ pc # "panicked")

\* --------------------------------------------------------------------- C15
\* C15: collectors are permanent.  In every step a registered name stays
\* registered with the same collector object and the same label names, every
\* child histogram of a registered collector stays and its count does not
\* decrease, so the collector's count does not decrease, and the count a
\* scrape collects for a collector is not below the count collected before.
C15_CollectorsPermanent ==
  [][ /\ \A n \in RegisteredNames :
           /\ n \in DOMAIN registry'.collectorsByID
           /\ registry'.collectorsByID[n] = registry.collectorsByID[n]
           /\ registry'.dimHashesByName[n] = registry.dimHashesByName[n]
      /\ \A id \in RegisteredIds :
           /\ \A v \in DOMAIN collectors[id].children :
                /\ v \in DOMAIN collectors'[id].children
                /\ collectors'[id].children[v].count
                     >= collectors[id].children[v].count
           /\ CollectorCount(collectors'[id]) >= CollectorCount(collectors[id])
      /\ \A id \in DOMAIN scrape.counts :
           /\ id \in DOMAIN scrape'.counts
           /\ scrape'.counts[id] >= scrape.counts[id] ]_vars

\* Two messages were processed, the second adopted the collector of the
\* first and observed into it, and a scrape collected that collector.
C15_Witness ==
  /\ Len(done) = 2
  /\ scrape.pc = "done"
  /\ \E r \in RegIdx :
       /\ regLog[r].outcome = "already"
       /\ regLog[r].use \in DOMAIN scrape.counts
       /\ scrape.counts[regLog[r].use] >= 2
       /\ CollectorCount(collectors[regLog[r].use]) >= 2

\* --------------------------------------------------------------------- C16
\* C16: in a run that ends with a fatal startup error no message has been
\* taken from the channel and nothing has been observed.
C16_NoTrafficBeforeFatal ==
  proc.fatal # "none" => (Taken = 0 /\ obsLog = <<>>)

\* --------------------------------------------------------------------- C17
\* C17 as stated: messages are taken in arrival order and processed one at a
\* time, token by token, and a finished scrape shows of every line a prefix
\* of the line's observations.
C17_ArrivalOrderPrefixView ==
  /\ ArrivalOrder
  /\ OneAtATime
  /\ ScrapeSeesPrefix

\* C17, amended: messages are taken in arrival order and processed one at a
\* time, token by token; nothing is promised about which observations of a
\* line a concurrent scrape shows.
C17_ArrivalOrder ==
  /\ ArrivalOrder
  /\ OneAtATime

\* Two different messages were processed in turn and a finished scrape shows
\* a later observation of a line without an earlier one.
C17_Witness ==
  /\ Len(done) = 2
  /\ done[1] # done[2]
  /\ scrape.pc = "done"
  /\ \E i, j \in ObsIdx :
       /\ i < j
       /\ obsLog[i].msg = obsLog[j].msg
       /\ Visible(j)
       /\ ~Visible(i)

====
